---- MODULE Spec2Model ----
(***************************************************************************)
(* Model of the question-paper analyser: the App component's run state,    *)
(* processFiles (the pipeline orchestrator), the file uploader's handlers  *)
(* and the two geminiService calls, extractQuestionsFromFile and           *)
(* analyzeRepeatedQuestions.  The backends and the file reader are the     *)
(* environment: each answer they can give is a nondeterministic input.     *)
(***************************************************************************)
EXTENDS Integers, Sequences, FiniteSets, TLC

(* ------------------------------ bounds -------------------------------- *)
\* most files the user uploads into the list
MaxFiles == 2
\* most files picked in one change event of the file input
MaxBatch == 2
\* longest generated question string, in characters
MaxStr == 4
\* most extraction results in one generated list of extractions
MaxDocs == 2

(* ----------------------------- constants ------------------------------ *)
ExtractionShare == 90
AnalysisStart == 92
Complete == 100
\* questions shorter than this after the trim are noise
MinQuestionLength == 3
\* the longest edge of a compressed image, in pixels
MAX_IMAGE_DIMENSION == 1536

\* nullable values: <<>> is null/undefined, <<x>> is the value x
Null == <<>>
Some(x) == <<x>>

MsgNoInput == "Please upload at least one paper."
MsgNoKey == "API Key is missing."
MsgNoQuestions == "No questions could be extracted. Please check your files."
MsgNoAnalysis == "No analysis response from AI"
MsgParseAnalysis == "Failed to parse analysis results."
MsgUnexpected == "An unexpected error occurred."
MsgBackend == "backend request failed"
Unknown == "Unknown"

StatusIdle == [text |-> "", n |-> 0]
StatusExtracting(n) == [text |-> "Extracting from n papers concurrently...", n |-> n]
StatusAnalyzing ==
  [text |-> "Analyzing patterns, merging duplicates, and solving questions...", n |-> 0]

(* --------------------------- input domains ---------------------------- *)
\* Math.random ids are only ever compared for equality, so a pool with one
\* value per file gives every pattern of distinct and colliding ids
Ids == 1..MaxFiles
FileNames == {"paper.pdf"}
\* question strings are sequences of characters
Q1 == <<"a", "b", "c">>
Q2 == <<"A", "b", "c">>

\* what the extraction backend can answer: the call rejects, the response has
\* no text, the text is not JSON, or the text is JSON.  A JSON answer may lack
\* the questions field the schema requires, its year may be empty and its
\* questions may repeat.
ExtractionResponses ==
  { [kind |-> k, year |-> "", hasQuestions |-> FALSE, questions |-> <<>>] :
      k \in {"rejected", "noText", "unparsable"} }
  \cup { [kind |-> "json", year |-> "", hasQuestions |-> FALSE, questions |-> <<>>],
         [kind |-> "json", year |-> "", hasQuestions |-> TRUE, questions |-> <<>>],
         [kind |-> "json", year |-> "2021", hasQuestions |-> TRUE, questions |-> <<Q1, Q1>>],
         [kind |-> "json", year |-> "2021", hasQuestions |-> TRUE, questions |-> <<Q1, Q2>>] }

\* a group of the analysis answer; frequency is a JSON value, a number when
\* isNumber and a string otherwise
Group(isNumber, v) == [id |-> "g", frequency |-> [isNumber |-> isNumber, v |-> v]]
GroupLists ==
  { <<>>,
    <<Group(TRUE, 2)>>,
    <<Group(TRUE, 2), Group(TRUE, 1)>>,
    <<Group(TRUE, 1), Group(TRUE, 2)>>,
    <<Group(FALSE, 2)>> }

AnalysisResponses ==
  { [kind |-> "rejected", message |-> m, groups |-> <<>>] : m \in {"", MsgBackend} }
  \cup { [kind |-> k, message |-> "", groups |-> <<>>] : k \in {"noText", "unparsable"} }
  \cup { [kind |-> "json", message |-> "", groups |-> gs] : gs \in GroupLists }

VARIABLES
  files, isProcessing, progress, currentStatus, analysisResults, summary,
  error, darkMode,
  apiKey,
  phase, runFiles, processedCount, taskPc, anyConforming, results, totalQ,
  allExtractions, extractionRequests, analysisRequests, op,
  agg, norm

appState == <<files, isProcessing, progress, currentStatus, analysisResults,
              summary, error, darkMode>>
runState == <<phase, runFiles, processedCount, taskPc, anyConforming, results, totalQ,
              allExtractions, extractionRequests, analysisRequests>>
\* the state of the two service functions when each is run on its own
serviceState == <<agg, norm>>
vars == <<appState, apiKey, runState, op, serviceState>>

\* agg and norm while the application runs: neither function is run alone
AggIdle == [pc |-> "idle", input |-> <<>>, questionMap |-> <<>>]
NormIdle == [pc |-> "idle"]

(* --------------------------- pure helpers ----------------------------- *)
Min(a, b) == IF a < b THEN a ELSE b

\* Math.round(num / den) for num >= 0, den > 0: the nearest integer, halves up
Round(num, den) == (2 * num + den) \div (2 * den)

\* a percentage that counts the extraction phase as the whole run
PercentageOfWhole(count, n) == Min(Complete, Round(count * Complete, n))
\* updateProgress: the percentage shown after `count` of n tasks settled
Percentage(count, n) == Min(ExtractionShare, Round(count * ExtractionShare, n))

RECURSIVE Dedupe(_)
\* Array.from(new Set(qs)): exact duplicates dropped, first-seen order kept
Dedupe(qs) ==
  IF qs = <<>> THEN <<>>
  ELSE LET front == Dedupe(SubSeq(qs, 1, Len(qs) - 1))
           last == qs[Len(qs)]
       IN IF \E k \in 1..Len(front) : front[k] = last
          THEN front ELSE Append(front, last)

\* the value extractQuestionsFromFile returns for a response that has text:
\* the parsed object, or the empty result of the catch block when JSON.parse
\* throws
ExtractionOf(resp, name) ==
  IF resp.kind = "json"
  THEN [questions |-> Dedupe(IF resp.hasQuestions THEN resp.questions ELSE <<>>),
        year |-> IF resp.year = "" THEN Unknown ELSE resp.year,
        sourceFile |-> name]
  ELSE [questions |-> <<>>, year |-> Unknown, sourceFile |-> name]

\* the response has text that parses against the schema {year, questions}
ConformsToExtractionSchema(resp) == resp.kind = "json" /\ resp.hasQuestions

\* does the extraction call throw on this response
ExtractionThrows(resp) == resp.kind \in {"rejected", "noText"}

(* ------------------- strings and the question map --------------------- *)
\* the white space of String.prototype.trim and of the \s class
IsSpace(c) == c \in {" ", "\t"}

\* String.prototype.toLowerCase on one character
LowerCaseOf(c) == CASE c = "A" -> "a" [] c = "B" -> "b" [] c = "C" -> "c" [] OTHER -> c
ToLowerCase(s) == [k \in 1..Len(s) |-> LowerCaseOf(s[k])]

\* String.prototype.trim: leading and trailing white space removed
Trim(s) ==
  LET inked == {k \in 1..Len(s) : ~IsSpace(s[k])}
  IN IF inked = {} THEN <<>>
     ELSE SubSeq(s, CHOOSE k \in inked : \A j \in inked : k <= j,
                    CHOOSE k \in inked : \A j \in inked : k >= j)

RECURSIVE CollapseWhitespace(_)
\* s.replace(/\s+/g, ' '): every run of white space becomes one space
CollapseWhitespace(s) ==
  IF s = <<>> THEN <<>>
  ELSE LET front == SubSeq(s, 1, Len(s) - 1)
           c == s[Len(s)]
       IN IF ~IsSpace(c) THEN Append(CollapseWhitespace(front), c)
          ELSE IF front # <<>> /\ IsSpace(front[Len(front)])
               THEN CollapseWhitespace(front)
               ELSE Append(CollapseWhitespace(front), " ")

\* a key that keeps the letter case of the text
KeyCaseSensitive(cleanText) == CollapseWhitespace(cleanText)
\* the normalized key of a trimmed question text
KeyOf(cleanText) == CollapseWhitespace(ToLowerCase(cleanText))

\* a year that is left empty when the extraction has none
YearAsGiven(year) == year
\* ex.year || "Unknown"
SafeYear(year) == IF year = "" THEN Unknown ELSE year

\* A questions array is parsed JSON and can hold a value that is not a
\* string: such a value is written as a sequence that starts with NumberTag,
\* here the number 4200.
NumberTag == "typeof number"
N1 == <<NumberTag, "4", "2", "0", "0">>
\* typeof q === 'string'
IsString(q) == q = <<>> \/ q[1] # NumberTag

\* a guard that lets everything but the empty string through
SkipsOnlyEmpty(q) == q = <<>>
\* the two early returns of the forEach body: q is empty or not a string,
\* or its trimmed text has fewer than three characters
Skipped(q) == q = <<>> \/ ~IsString(q) \/ Len(Trim(q)) < MinQuestionLength

\* an aggregation step that keeps only the latest year of a question
OverwriteQuestion(questionMap, q, safeYear) ==
  LET cleanText == Trim(q)
      key == KeyOf(cleanText)
      kept == SelectSeq(questionMap, LAMBDA e : e.key # key)
  IN IF Skipped(q) THEN questionMap
     ELSE Append(kept, [key |-> key, text |-> cleanText, years |-> <<safeYear>>])
\* the body of ex.questions.forEach for one question q: skipped when empty,
\* not a string or shorter than three characters after the trim, else its
\* year is pushed on the entry of its key or a new entry is set
AddQuestion(questionMap, q, safeYear) ==
  LET cleanText == Trim(q)
      key == KeyOf(cleanText)
  IN IF Skipped(q) THEN questionMap
     ELSE IF \E k \in 1..Len(questionMap) : questionMap[k].key = key
          THEN [k \in 1..Len(questionMap) |->
                  IF questionMap[k].key = key
                  THEN [questionMap[k] EXCEPT !.years = Append(@, safeYear)]
                  ELSE questionMap[k]]
          ELSE Append(questionMap,
                      [key |-> key, text |-> cleanText, years |-> <<safeYear>>])

RECURSIVE AddQuestions(_, _, _)
\* ex.questions.forEach over the questions of one extraction, in order
AddQuestions(questionMap, qs, safeYear) ==
  IF qs = <<>> THEN questionMap
  ELSE AddQuestion(AddQuestions(questionMap, SubSeq(qs, 1, Len(qs) - 1), safeYear),
                   qs[Len(qs)], safeYear)

RECURSIVE QuestionMapOf(_)
\* allExtractions.forEach: the map from key to text and years, the entries
\* in the order in which their keys were first seen
QuestionMapOf(extractions) ==
  IF extractions = <<>> THEN <<>>
  ELSE LET ex == extractions[Len(extractions)]
       IN AddQuestions(QuestionMapOf(SubSeq(extractions, 1, Len(extractions) - 1)),
                       ex.questions, SafeYear(ex.year))

\* Array.from(questionMap.values()).map(...): the list sent to the backend
PreProcessedData(questionMap) ==
  [k \in 1..Len(questionMap) |->
     [question |-> questionMap[k].text, years |-> questionMap[k].years]]

\* an update computed from the list as it was rendered at upload, not from
\* the latest one: the other documents fall back to 'pending'
WithStatusOfStaleList(fs, id, status) ==
  [k \in 1..Len(fs) |-> IF fs[k].id = id THEN [fs[k] EXCEPT !.status = status]
                        ELSE [fs[k] EXCEPT !.status = "pending"]]
\* prev.map(f => f.id === id ? {...f, status} : f)
WithStatus(fs, id, status) ==
  [k \in 1..Len(fs) |-> IF fs[k].id = id THEN [fs[k] EXCEPT !.status = status]
                        ELSE fs[k]]

\* prev.map(f => f.id === id ? {...f, status: 'completed', ...} : f)
WithCompleted(fs, id, extraction) ==
  [k \in 1..Len(fs) |->
     IF fs[k].id = id
     THEN [fs[k] EXCEPT !.status = "completed",
                        !.detectedYear = Some(extraction.year),
                        !.extractedQuestionsCount = Some(Len(extraction.questions))]
     ELSE fs[k]]

RECURSIVE MarkAllProcessing(_, _, _)
\* the synchronous prefix of files.map(async ...): one status update per file
MarkAllProcessing(fs, snapshot, k) ==
  IF k > Len(snapshot) THEN fs
  ELSE MarkAllProcessing(WithStatus(fs, snapshot[k].id, "processing"), snapshot, k + 1)

\* results.filter(r => r !== null)
SuccessfulOf(rs) ==
  LET kept == SelectSeq(rs, LAMBDA r : r # Null)
  IN [k \in 1..Len(kept) |-> kept[k][1]]

\* a total that counts the documents, not their questions
CountDocuments(exs) == Len(exs)
RECURSIVE TotalQuestions(_)
\* successfulExtractions.reduce((acc, val) => acc + val.questions.length, 0)
TotalQuestions(exs) ==
  IF exs = <<>> THEN 0
  ELSE Len(exs[1].questions) + TotalQuestions(Tail(exs))

\* err.message || "An unexpected error occurred."
MessageOf(m) == IF m = "" THEN MsgUnexpected ELSE m

(* ------------------------------- Init --------------------------------- *)
AppInit ==
  /\ files = <<>>
  /\ isProcessing = FALSE
  /\ progress = 0
  /\ currentStatus = StatusIdle
  /\ analysisResults = Null
  /\ summary = Null
  /\ error = Null
  /\ darkMode = FALSE
  /\ apiKey \in BOOLEAN
  /\ phase = "idle"
  /\ runFiles = <<>>
  /\ processedCount = 0
  /\ taskPc = <<>>
  /\ anyConforming = FALSE
  /\ results = <<>>
  /\ totalQ = 0
  /\ allExtractions = Null
  /\ extractionRequests = 0
  /\ analysisRequests = 0
  /\ op = "other"

Init ==
  /\ AppInit
  /\ agg = AggIdle
  /\ norm = NormIdle

(* --------------------------- user actions ----------------------------- *)
\* a landing panel that stays on the page during a run
PanelVisibleInRun == analysisResults = Null
\* the landing panel (uploader and Analyze button) is rendered
PanelVisible == analysisResults = Null /\ ~isProcessing

\* the ids Math.random can give the next entry of a list, up to renaming:
\* one already in the list (a collision) or the smallest one not in it
IdsAfter(entries) ==
  LET used == { entries[k].id : k \in 1..Len(entries) }
      unused == Ids \ used
  IN used \cup { u \in unused : \A w \in unused : u <= w }

\* FileUploader.handleFileChange: the picked files are appended as pending
\* entries, each with an id drawn by Math.random
handleFileChange(batch) ==
  /\ PanelVisible
  /\ Len(batch) > 0
  /\ Len(files) + Len(batch) <= MaxFiles
  /\ \A k \in 1..Len(batch) :
       batch[k].id \in IdsAfter(files \o SubSeq(batch, 1, k - 1))
  /\ files' = files \o
       [k \in 1..Len(batch) |->
          [id |-> batch[k].id, file |-> batch[k].file, status |-> "pending",
           detectedYear |-> Null, extractedQuestionsCount |-> Null]]
  /\ op' = "other"
  /\ UNCHANGED <<isProcessing, progress, currentStatus, analysisResults, summary,
                 error, darkMode, apiKey, serviceState, runState>>

\* The ids are opaque random strings that are only compared with each other.
\* The model names them by order of first occurrence in the list: the entry
\* at k gets the number of distinct ids among the entries 1..k that first
\* occur at or before the first occurrence of its own id.
RenumberIds(fs) ==
  LET first(k) == CHOOSE j \in 1..k : fs[j].id = fs[k].id
                                       /\ \A h \in 1..(j - 1) : fs[h].id # fs[k].id
      rank(j) == Cardinality({ h \in 1..j : \A g \in 1..(h - 1) : fs[g].id # fs[h].id })
  IN [k \in 1..Len(fs) |-> [fs[k] EXCEPT !.id = rank(first(k))]]

\* FileUploader.removeFile: every entry with the id is dropped (no task holds
\* an id while the uploader is shown, so the rest can be renumbered)
removeFile(id) ==
  /\ PanelVisible
  /\ \E k \in 1..Len(files) : files[k].id = id
  /\ files' = RenumberIds(SelectSeq(files, LAMBDA f : f.id # id))
  /\ op' = "other"
  /\ UNCHANGED <<isProcessing, progress, currentStatus, analysisResults, summary,
                 error, darkMode, apiKey, serviceState, runState>>

\* the header's dark mode button
toggleDarkMode ==
  /\ darkMode' = ~darkMode
  /\ op' = "other"
  /\ UNCHANGED <<files, isProcessing, progress, currentStatus, analysisResults,
                 summary, error, apiKey, serviceState, runState>>

\* a reset that clears the results but keeps the summary of the run
handleResetKeepingSummary ==
  /\ analysisResults # Null
  /\ files' = <<>>
  /\ analysisResults' = Null
  /\ error' = Null
  /\ isProcessing' = FALSE
  /\ currentStatus' = StatusIdle
  /\ progress' = 0
  /\ op' = "handleReset"
  /\ UNCHANGED <<summary, darkMode, apiKey, serviceState, runState>>
\* App.handleReset, behind the New Analysis button
handleReset ==
  /\ analysisResults # Null
  /\ files' = <<>>
  /\ analysisResults' = Null
  /\ summary' = Null
  /\ error' = Null
  /\ isProcessing' = FALSE
  /\ currentStatus' = StatusIdle
  /\ progress' = 0
  /\ op' = "handleReset"
  /\ UNCHANGED <<darkMode, apiKey, serviceState, runState>>

(* --------------------------- processFiles ----------------------------- *)
NeverEmpty(fs) == FALSE
\* the first guard of processFiles
NoInput(fs) == Len(fs) = 0

KeyAssumed == TRUE
\* the second guard of processFiles: process.env.API_KEY is set
KeyPresent == apiKey

\* processFiles up to its first suspension: the guards, the state resets and
\* the synchronous prefix of every extraction task (status 'processing', then
\* the file read of fileToGenerativePart is started)
processFiles ==
  /\ PanelVisible
  /\ op' = "processFiles"
  /\ IF NoInput(files)
     THEN /\ error' = Some(MsgNoInput)
          /\ UNCHANGED <<files, isProcessing, progress, currentStatus,
                         analysisResults, summary, darkMode, apiKey, serviceState, runState>>
     ELSE IF ~KeyPresent
     THEN /\ error' = Some(MsgNoKey)
          /\ UNCHANGED <<files, isProcessing, progress, currentStatus,
                         analysisResults, summary, darkMode, apiKey, serviceState, runState>>
     ELSE /\ isProcessing' = TRUE
          /\ progress' = 0
          /\ error' = Null
          /\ analysisResults' = Null
          /\ currentStatus' = StatusExtracting(Len(files))
          /\ runFiles' = files
          /\ processedCount' = 0
          /\ files' = MarkAllProcessing(files, files, 1)
          /\ taskPc' = [k \in 1..Len(files) |-> "reading"]
          /\ anyConforming' = FALSE
          /\ results' = [k \in 1..Len(files) |-> Null]
          /\ totalQ' = 0
          /\ allExtractions' = Null
          /\ extractionRequests' = 0
          /\ analysisRequests' = 0
          /\ phase' = "extracting"
          /\ UNCHANGED <<summary, darkMode, apiKey, serviceState>>

\* processFiles returns: its locals (the files snapshot, the counter, the
\* task promises and their results) go out of scope
ReturnFromRun ==
  /\ runFiles' = <<>>
  /\ processedCount' = 0
  /\ taskPc' = <<>>
  /\ anyConforming' = FALSE
  /\ results' = <<>>
  /\ totalQ' = 0
  /\ allExtractions' = Null

\* a catch block without the finally block
RunFailsBusy(message) ==
  /\ error' = Some(message)
  /\ isProcessing' = isProcessing
  /\ currentStatus' = currentStatus
  /\ phase' = "idle"
  /\ ReturnFromRun

\* the catch block and finally block of processFiles
RunFails(message) ==
  /\ error' = Some(message)
  /\ isProcessing' = FALSE
  /\ currentStatus' = StatusIdle
  /\ phase' = "idle"
  /\ ReturnFromRun

(* ------------------------ one extraction task ------------------------- *)
\* updateProgress, as a function of the count before the call
updateProgress ==
  /\ processedCount' = processedCount + 1
  /\ progress' = Percentage(processedCount + 1, Len(runFiles))

\* a task whose failure is not caught: the rejection reaches Promise.all and
\* ends the run while the sibling tasks are still in flight
TaskRethrows(i) ==
  /\ error' = Some(MsgBackend)
  /\ isProcessing' = FALSE
  /\ currentStatus' = StatusIdle
  /\ phase' = "idle"
  /\ taskPc' = [taskPc EXCEPT ![i] = "done"]
  /\ results' = [results EXCEPT ![i] = Null]
  /\ UNCHANGED <<files, processedCount, progress>>

\* the catch block of task i: status 'error', progress, the task yields null
TaskFails(i) ==
  /\ files' = WithStatus(files, runFiles[i].id, "error")
  /\ updateProgress
  /\ taskPc' = [taskPc EXCEPT ![i] = "done"]
  /\ results' = [results EXCEPT ![i] = Null]
  /\ UNCHANGED <<error, isProcessing, currentStatus, phase>>

\* a try block whose promise is never resolved: the status is written but
\* the task does not settle
TaskNeverResolves(i, extraction) ==
  /\ files' = WithCompleted(files, runFiles[i].id, extraction)
  /\ taskPc' = [taskPc EXCEPT ![i] = "hung"]
  /\ UNCHANGED <<processedCount, progress, results, error, isProcessing,
                 currentStatus, phase>>
\* the try block of task i after the await: status 'completed' with the year
\* and the question count, progress, the task yields the extraction
TaskCompletes(i, extraction) ==
  /\ files' = WithCompleted(files, runFiles[i].id, extraction)
  /\ updateProgress
  /\ taskPc' = [taskPc EXCEPT ![i] = "done"]
  /\ results' = [results EXCEPT ![i] = Some(extraction)]
  /\ UNCHANGED <<error, isProcessing, currentStatus, phase>>

\* fileToGenerativePart settles for task i: the payload is ready and the
\* extraction request is issued, or the file read rejects
fileToGenerativePart(i, readable) ==
  /\ i \in 1..Len(taskPc)
  /\ taskPc[i] = "reading"
  /\ op' = "other"
  /\ IF readable
     THEN /\ taskPc' = [taskPc EXCEPT ![i] = "awaiting"]
          /\ extractionRequests' = extractionRequests + 1
          /\ UNCHANGED <<files, processedCount, progress, results, error,
                         isProcessing, currentStatus, phase>>
     ELSE /\ TaskFails(i)
          /\ UNCHANGED extractionRequests
  /\ UNCHANGED <<analysisResults, summary, darkMode, apiKey, serviceState, runFiles, totalQ,
                 allExtractions, analysisRequests, anyConforming>>

\* the extraction backend answers task i
extractQuestionsFromFile(i, resp) ==
  /\ i \in 1..Len(taskPc)
  /\ taskPc[i] = "awaiting"
  /\ op' = "other"
  /\ anyConforming' = (anyConforming \/ ConformsToExtractionSchema(resp))
  /\ IF ExtractionThrows(resp)
     THEN TaskFails(i)
     ELSE TaskCompletes(i, ExtractionOf(resp, runFiles[i].file))
  /\ UNCHANGED <<analysisResults, summary, darkMode, apiKey, serviceState, runFiles, totalQ,
                 allExtractions, extractionRequests, analysisRequests>>

(* ------------------------- join and analysis -------------------------- *)
\* a join that fires as soon as one task has settled
AnySettled == \E k \in 1..Len(taskPc) : taskPc[k] = "done"
\* Promise.all(extractionPromises) has resolved
AllSettled == \A k \in 1..Len(taskPc) : taskPc[k] = "done"

\* processFiles from the resolution of Promise.all to the analysis request
\* (or to the error when nothing was extracted)
joinExtractions ==
  /\ phase = "extracting"
  /\ AllSettled
  /\ op' = "other"
  /\ LET successfulExtractions == SuccessfulOf(results)
     IN IF Len(successfulExtractions) = 0
        THEN /\ RunFails(MsgNoQuestions)
             /\ UNCHANGED <<progress, analysisRequests>>
        ELSE /\ totalQ' = TotalQuestions(successfulExtractions)
             /\ currentStatus' = StatusAnalyzing
             /\ progress' = AnalysisStart
             /\ allExtractions' = Some(successfulExtractions)
             /\ analysisRequests' = analysisRequests + 1
             /\ phase' = "analyzing"
             /\ UNCHANGED <<error, isProcessing, runFiles, processedCount,
                            taskPc, anyConforming, results>>
  /\ UNCHANGED <<files, analysisResults, summary, darkMode, apiKey, serviceState,
                 extractionRequests>>

\* a summary that counts as repeated only the groups seen more than once
SummaryOfRepeated(snapshot, totalQuestions, groups) ==
  [totalPapers |-> Len(snapshot),
   totalQuestionsExtracted |-> totalQuestions,
   totalRepeatedGroups |->
     Cardinality({k \in 1..Len(groups) : groups[k].frequency.v > 1})]
\* the object passed to setSummary
SummaryOf(snapshot, totalQuestions, groups) ==
  [totalPapers |-> Len(snapshot),
   totalQuestionsExtracted |-> totalQuestions,
   totalRepeatedGroups |-> Len(groups)]

\* the analysis backend answers: analyzeRepeatedQuestions returns the parsed
\* text or throws, and processFiles stores the result or reports the error
analyzeRepeatedQuestions(resp) ==
  /\ phase = "analyzing"
  /\ op' = "other"
  /\ IF resp.kind = "json"
     THEN /\ progress' = Complete
          /\ analysisResults' = Some(resp.groups)
          /\ summary' = Some(SummaryOf(runFiles, totalQ, resp.groups))
          /\ isProcessing' = FALSE
          /\ currentStatus' = StatusIdle
          /\ phase' = "idle"
          /\ ReturnFromRun
          /\ UNCHANGED error
     ELSE /\ RunFails(CASE resp.kind = "rejected" -> MessageOf(resp.message)
                        [] resp.kind = "noText" -> MsgNoAnalysis
                        [] OTHER -> MsgParseAnalysis)
          /\ UNCHANGED <<progress, analysisResults, summary>>
  /\ UNCHANGED <<files, darkMode, apiKey, serviceState, extractionRequests, analysisRequests>>

(* ------------------------------- Next --------------------------------- *)
Batches ==
  UNION { [1..n -> [id : Ids, file : FileNames]] : n \in 1..MaxBatch }

Next ==
  \/ \E batch \in Batches : handleFileChange(batch)
  \/ \E id \in Ids : removeFile(id)
  \/ toggleDarkMode
  \/ handleReset
  \/ processFiles
  \/ \E i \in 1..MaxFiles, readable \in BOOLEAN : fileToGenerativePart(i, readable)
  \/ \E i \in 1..MaxFiles, resp \in ExtractionResponses : extractQuestionsFromFile(i, resp)
  \/ joinExtractions
  \/ \E resp \in AnalysisResponses : analyzeRepeatedQuestions(resp)

Spec == Init /\ [][Next]_vars

\* a step of a run after its start: a file read or a backend call settles,
\* or the continuation of Promise.all runs
RunStep ==
  \/ \E i \in 1..MaxFiles, readable \in BOOLEAN : fileToGenerativePart(i, readable)
  \/ \E i \in 1..MaxFiles, resp \in ExtractionResponses : extractQuestionsFromFile(i, resp)
  \/ joinExtractions
  \/ \E resp \in AnalysisResponses : analyzeRepeatedQuestions(resp)

\* Every file read and every backend call settles, and a continuation that
\* is ready to run is run: while a run has a step to take, some step of it
\* is taken.  The user is under no obligation to act.
Settling == WF_vars(RunStep)

LiveSpec == Init /\ [][Next]_vars /\ Settling

(* ====================== properties of the run ========================= *)
\* task i settles in this step
Settles(i) ==
  /\ i \in 1..Len(taskPc) /\ taskPc[i] # "done"
  /\ i \in 1..Len(taskPc') /\ taskPc'[i] = "done"

\* the run leaves the extraction phase in this step
LeavesExtraction == phase = "extracting" /\ phase' # "extracting"

RECURSIVE ResultsUpTo(_, _)
\* the results of tasks 1..n that are not null, in task order
ResultsUpTo(rs, n) ==
  IF n = 0 THEN <<>>
  ELSE IF rs[n] = Null THEN ResultsUpTo(rs, n - 1)
       ELSE Append(ResultsUpTo(rs, n - 1), rs[n][1])

RECURSIVE QuestionsUpTo(_, _)
\* the number of questions in the non-null results of tasks 1..n
QuestionsUpTo(rs, n) ==
  IF n = 0 THEN 0
  ELSE QuestionsUpTo(rs, n - 1) + (IF rs[n] = Null THEN 0 ELSE Len(rs[n][1].questions))

\* C1: a task that fails leaves the run in its extraction phase and every
\* sibling task as it was, and when the analysis request is issued every task
\* has settled and the list handed to analyzeRepeatedQuestions is exactly the
\* results of the tasks that did not fail, in task order.
C1_FailureNeverAbortsSiblings ==
  [][ /\ \A i \in 1..MaxFiles :
           (Settles(i) /\ results'[i] = Null) =>
             /\ phase' = "extracting"
             /\ isProcessing'
             /\ Len(taskPc') = Len(taskPc)
             /\ \A j \in 1..Len(taskPc) :
                  j # i => taskPc'[j] = taskPc[j] /\ results'[j] = results[j]
      /\ analysisRequests' = analysisRequests + 1 =>
           /\ \A i \in 1..Len(taskPc) : taskPc[i] = "done"
           /\ Len(results) = Len(runFiles)
           /\ allExtractions' = Some(ResultsUpTo(results, Len(results)))
    ]_vars

\* the analysis request of a run in which one task failed and another did not
C1_Witness ==
  /\ phase = "analyzing"
  /\ \E i, j \in 1..Len(results) : results[i] = Null /\ results[j] # Null
  /\ Len(allExtractions[1]) < Len(runFiles)

\* C2: when every document of a run failed extraction (unreadable, rejected,
\* no payload, or a response that does not parse against the schema), the run
\* leaves the extraction phase with an error and without an analysis request.
C2_AllFailedEndsRun ==
  [][ (LeavesExtraction /\ ~anyConforming)
      => /\ phase' = "idle"
         /\ error' # Null
         /\ analysisRequests' = 0
    ]_vars

\* C3: a task answered with no payload or with text that does not parse
\* against the schema fails: it yields no result and its document's status is
\* 'error'.
C3_BadResponseFailsDocument ==
  [][ \A i \in 1..MaxFiles, resp \in ExtractionResponses :
        ( /\ resp.kind # "rejected"
          /\ ~ConformsToExtractionSchema(resp)
          /\ extractQuestionsFromFile(i, resp) )
        => /\ results'[i] = Null
           /\ \A k \in 1..Len(files') :
                files'[k].id = runFiles[i].id => files'[k].status = "error"
    ]_vars

\* C4: while the analysis request is out, every task has settled: no document
\* is pending or processing and the settled count is the number of documents.
C4_GroupingAfterAllSettled ==
  phase = "analyzing" =>
    /\ analysisRequests = 1
    /\ \A k \in 1..Len(files) : files[k].status \in {"completed", "error"}
    /\ \A i \in 1..Len(taskPc) : taskPc[i] = "done"
    /\ processedCount = Len(runFiles)
    /\ Len(files) = Len(runFiles)

\* the analysis request of a run over several documents
C4_Witness ==
  /\ phase = "analyzing"
  /\ Len(runFiles) >= 2
  /\ \E k \in 1..Len(files) : files[k].status = "error"

\* C5: processFiles on an empty list only sets the error: isProcessing,
\* progress, the files, the results and the request counts stay as they were.
C5_EmptyListOnlyReports ==
  [][ (op' = "processFiles" /\ Len(files) = 0)
      => /\ error' = Some(MsgNoInput)
         /\ UNCHANGED <<files, isProcessing, progress, currentStatus,
                        analysisResults, summary, phase, extractionRequests,
                        analysisRequests>>
    ]_vars

\* processFiles was called on a list emptied after an earlier failed run
C5_Witness ==
  /\ op = "processFiles"
  /\ Len(files) = 0
  /\ error = Some(MsgNoInput)
  /\ progress > 0

\* C6: without the API key no run ever starts: isProcessing stays false, no
\* status leaves 'pending', no request is issued, and a call of processFiles
\* leaves an error.
C6_NoKeyNoProcessing ==
  [][ ~apiKey =>
        /\ isProcessing' = FALSE
        /\ phase' = "idle"
        /\ \A k \in 1..Len(files') : files'[k].status = "pending"
        /\ extractionRequests' = 0
        /\ analysisRequests' = 0
        /\ (op' = "processFiles" => error' # Null)
    ]_vars

\* processFiles was called on a non-empty list without the key
C6_Witness ==
  /\ ~apiKey
  /\ op = "processFiles"
  /\ Len(files) > 0
  /\ error = Some(MsgNoKey)

\* does the group list conform to the analysis schema (frequency is a number)
ConformsToAnalysisSchema(groups) ==
  \A k \in 1..Len(groups) : groups[k].frequency.isNumber

\* C7: no analysis response that fails schema validation is ever accepted as
\* the result of a run.
C7_OnlyValidAnalysisAccepted ==
  analysisResults # Null => ConformsToAnalysisSchema(analysisResults[1])

\* the run ends in this step without results
RunEndsFailed == phase # "idle" /\ phase' = "idle" /\ analysisResults' = Null

\* C8: a run that ends without results leaves the application idle with the
\* error set, no results or summary, the files of the run still listed and
\* the Analyze button available.
C8_FailedRunIsRetriable ==
  [][ RunEndsFailed =>
        /\ isProcessing' = FALSE
        /\ error' # Null
        /\ analysisResults' = Null
        /\ summary' = Null
        /\ currentStatus' = StatusIdle
        /\ Len(files') = Len(runFiles)
        /\ \A k \in 1..Len(runFiles) :
             files'[k].id = runFiles[k].id /\ files'[k].file = runFiles[k].file
        /\ PanelVisible'
        /\ ~NoInput(files')
        /\ KeyPresent'
    ]_vars

\* a second run over files that an earlier, failed run had extracted
C8_Witness ==
  /\ isProcessing
  /\ \E k \in 1..Len(files) :
       files[k].status = "processing" /\ files[k].extractedQuestionsCount # Null

\* C9: the summary of a successful run counts every input document, the
\* questions of the documents that were extracted, and the groups returned.
C9_SummaryCounts ==
  [][ (analysisResults = Null /\ analysisResults' # Null) =>
        summary' = Some([totalPapers |-> Len(results),
                         totalQuestionsExtracted |-> QuestionsUpTo(results, Len(results)),
                         totalRepeatedGroups |-> Len(analysisResults'[1])])
    ]_vars

\* results of a run in which one document failed and another had questions
C9_Witness ==
  /\ analysisResults # Null
  /\ summary # Null
  /\ \E k \in 1..Len(files) : files[k].status = "error"
  /\ summary[1].totalPapers = 2
  /\ summary[1].totalQuestionsExtracted = 2
  /\ summary[1].totalRepeatedGroups = 1

SortedByFrequency(groups) ==
  \A k \in 1..(Len(groups) - 1) : groups[k].frequency.v >= groups[k + 1].frequency.v

\* C11: the groups that analyzeRepeatedQuestions returns, and so the results
\* on display, are sorted by frequency in descending order whatever the
\* backend answered.
C11_ResultsSortedByFrequency ==
  analysisResults # Null => SortedByFrequency(analysisResults[1])

RECURSIVE SumOfFrequencies(_)
SumOfFrequencies(groups) ==
  IF groups = <<>> THEN 0
  ELSE groups[Len(groups)].frequency.v
       + SumOfFrequencies(SubSeq(groups, 1, Len(groups) - 1))

RECURSIVE TotalYearEntries(_)
\* the number of year entries over all entries of a question map
TotalYearEntries(questionMap) ==
  IF questionMap = <<>> THEN 0
  ELSE Len(questionMap[Len(questionMap)].years)
       + TotalYearEntries(SubSeq(questionMap, 1, Len(questionMap) - 1))

\* C12: the frequencies of an accepted result sum to the number of year
\* entries of the aggregated input the backend was sent, every frequency
\* being the number of occurrences merged into its group.
C12_FrequenciesCountOccurrences ==
  [][ (phase = "analyzing" /\ analysisResults' # Null) =>
        SumOfFrequencies(analysisResults'[1])
          = TotalYearEntries(QuestionMapOf(allExtractions[1]))
    ]_vars

\* C14: the questions of every extraction that extractQuestionsFromFile
\* returns are pairwise different after trimming, lower-casing and
\* collapsing white space, so a question repeated in one document gives one
\* year entry at most.
C14_ExtractionHasNoNearDuplicates ==
  \A i \in 1..Len(results) :
    results[i] # Null =>
      \A j, k \in 1..Len(results[i][1].questions) :
        j # k => KeyOf(Trim(results[i][1].questions[j]))
                   # KeyOf(Trim(results[i][1].questions[k]))

(* ------------------- properties of the document status ---------------- *)
\* the status changes the lifecycle of a document allows
StatusAdvances(from, to) ==
  \/ to = from
  \/ from = "pending" /\ to = "processing"
  \/ from = "processing" /\ to \in {"completed", "error"}

\* the step neither adds nor removes a document
SameDocuments ==
  /\ Len(files') = Len(files)
  /\ \A k \in 1..Len(files) : files'[k].id = files[k].id

\* C15: over any sequence of user actions and runs, a retry after a failed
\* run included, the status of a document only goes from pending to
\* processing and from processing to completed or error; it never goes back
\* and never leaves completed or error.
C15_StatusOnlyAdvances ==
  [][ SameDocuments =>
        \A k \in 1..Len(files) : StatusAdvances(files[k].status, files'[k].status)
    ]_vars

(* ------------- the aggregation of analyzeRepeatedQuestions ------------- *)
\* The client-side aggregation run on its own: the input is any list of
\* extraction results, the one action builds the question map from it.
Chars == {"a", "A", " "}
Strings == UNION { [1..n -> Chars] : n \in 0..MaxStr }

\* sample question texts: "a b", "A<tab> B", " abc " and the short "ab";
\* the last list has the number 4200 where a question should be
T1 == <<"a", " ", "b">>
T2 == <<"A", "\t", " ", "B">>
T3 == <<" ", "a", "b", "c", " ">>
T4 == <<"a", "b">>
QuestionLists == { <<>>, <<T1>>, <<T2>>, <<T3>>, <<T1, T2>>, <<T4, T3>>, <<N1, T1>> }
Years == {"", "2021", "2022"}

Extraction(qs, year) == [questions |-> qs, year |-> year, sourceFile |-> "paper.pdf"]

\* two results with one generated question each, the second without a year
PairInputs ==
  { <<Extraction(<<q1>>, "2021"), Extraction(<<q2>>, "")>> : q1, q2 \in Strings }
\* up to MaxDocs results with sample questions and any year
ListInputs ==
  UNION { [1..n -> { Extraction(qs, y) : qs \in QuestionLists, y \in Years }] :
            n \in 0..MaxDocs }
AggInputs == PairInputs \cup ListInputs

AggInit ==
  /\ AppInit
  /\ apiKey
  /\ norm = NormIdle
  /\ agg \in { [pc |-> "ready", input |-> input, questionMap |-> <<>>] :
                 input \in AggInputs }

\* analyzeRepeatedQuestions up to the construction of preProcessedData
buildQuestionMap ==
  /\ agg.pc = "ready"
  /\ agg' = [agg EXCEPT !.pc = "done", !.questionMap = QuestionMapOf(agg.input)]
  /\ UNCHANGED <<appState, apiKey, runState, op, norm>>

AggNext == buildQuestionMap

SpecAgg == AggInit /\ [][AggNext]_vars

(* ------------------------ fileToGenerativePart ------------------------- *)
\* fileToGenerativePart run on its own for one file.  The file reader, the
\* image decoder and the canvas are the environment: a read or a decode
\* fails or succeeds, the 2d context is there or not.
MimeType(major, minor) == [major |-> major, minor |-> minor]
Jpeg == MimeType("image", "jpeg")
NoType == MimeType("", "")
FileTypes == { MimeType("image", "png"), Jpeg,
               MimeType("application", "pdf"), MimeType("text", "plain") }
\* file.type.startsWith('image/')
IsImage(type) == type.major = "image"

\* widths and heights of the decoded image, in pixels
Dimensions == {1, 1024, 1536, 1537, 2073, 3072}
NormFiles ==
  { [type |-> t, width |-> w, height |-> h] :
      t \in {ft \in FileTypes : IsImage(ft)}, w \in Dimensions, h \in Dimensions }
  \cup { [type |-> t, width |-> 0, height |-> 0] :
           t \in {ft \in FileTypes : ~IsImage(ft)} }

NoPayload == [data |-> "none", mimeType |-> NoType]

\* side * (MAX_IMAGE_DIMENSION / longest) as the canvas takes it, an integer
\* number of pixels: the double is cut to its integer part.  When the exact
\* quotient is an integer the rounded double can lie just below it (2073
\* squared gives 1535.9999999999998), so one pixel less is possible too.
Scaled(side, longest) ==
  LET q == (side * MAX_IMAGE_DIMENSION) \div longest
  IN IF (side * MAX_IMAGE_DIMENSION) % longest = 0 /\ q > 0 THEN {q - 1, q} ELSE {q}

\* a resize that always takes the width as the longest edge
ScaledByWidth(width, height) ==
  IF width > MAX_IMAGE_DIMENSION \/ height > MAX_IMAGE_DIMENSION
  THEN { [width |-> MAX_IMAGE_DIMENSION, height |-> h] : h \in Scaled(height, width) }
  ELSE { [width |-> width, height |-> height] }
\* the canvas sizes img.onload can compute for an image of width x height
ScaledDimensions(width, height) ==
  IF width > MAX_IMAGE_DIMENSION \/ height > MAX_IMAGE_DIMENSION
  THEN IF width > height
       THEN { [width |-> MAX_IMAGE_DIMENSION, height |-> h] :
                h \in Scaled(height, width) }
       ELSE { [width |-> w, height |-> MAX_IMAGE_DIMENSION] :
                w \in Scaled(width, height) }
  ELSE { [width |-> width, height |-> height] }

NormInit ==
  /\ AppInit
  /\ apiKey
  /\ agg = AggIdle
  /\ norm \in { [pc |-> "called", file |-> f, compression |-> "none",
                  canvas |-> [width |-> 0, height |-> 0], read |-> "none",
                  payload |-> NoPayload] : f \in NormFiles }

NormUnchanged == UNCHANGED <<appState, apiKey, runState, op, agg>>

\* fileToGenerativePart is called: an image goes to compressImage, whose
\* reader starts; any other file goes to the standard reader
callFileToGenerativePart ==
  /\ norm.pc = "called"
  /\ norm' = IF IsImage(norm.file.type)
             THEN [norm EXCEPT !.pc = "compressReading", !.compression = "started"]
             ELSE [norm EXCEPT !.pc = "reading"]
  /\ NormUnchanged

\* a catch block that passes the rejection of compressImage on
CompressionRethrown(cause) ==
  norm' = [norm EXCEPT !.pc = "rejected", !.compression = cause]
\* compressImage rejects: the catch block warns and falls through to the
\* standard reader
CompressionRejected(cause) ==
  norm' = [norm EXCEPT !.pc = "reading", !.compression = cause]

\* the reader of compressImage: onload hands the data URL to a new Image,
\* onerror rejects
compressImageReader(loaded) ==
  /\ norm.pc = "compressReading"
  /\ IF loaded THEN norm' = [norm EXCEPT !.pc = "decoding"]
     ELSE CompressionRejected("readerError")
  /\ NormUnchanged

\* the data of canvas.toDataURL('image/jpeg'): empty for a canvas without
\* pixels ("data:,"), else the JPEG encoding
EncodedData(canvas) ==
  IF canvas.width = 0 \/ canvas.height = 0 THEN "empty" ELSE "jpeg"

\* the image of compressImage: onerror rejects; onload sizes the canvas and
\* resolves with the original data when there is no 2d context, else with
\* the JPEG encoding of the drawn canvas.  fileToGenerativePart returns
\* what compressImage resolved with as image/jpeg.
compressImageDecoder(decoded, hasContext) ==
  /\ norm.pc = "decoding"
  /\ IF ~decoded THEN CompressionRejected("imageError")
     ELSE \E canvas \in ScaledDimensions(norm.file.width, norm.file.height) :
            IF ~hasContext
            THEN norm' = [norm EXCEPT !.pc = "resolved", !.compression = "noContext",
                                      !.canvas = canvas,
                                      !.payload = [data |-> "original",
                                                   mimeType |-> Jpeg]]
            ELSE norm' = [norm EXCEPT !.pc = "resolved", !.compression = "encoded",
                                      !.canvas = canvas,
                                      !.payload = [data |-> EncodedData(canvas),
                                                   mimeType |-> Jpeg]]
  /\ NormUnchanged

\* the standard reader: onerror rejects, onloadend after a load resolves
\* with the data of the file and file.type
standardReader(loaded) ==
  /\ norm.pc = "reading"
  /\ IF loaded
     THEN norm' = [norm EXCEPT !.pc = "resolved", !.read = "loaded",
                               !.payload = [data |-> "original",
                                            mimeType |-> norm.file.type]]
     ELSE norm' = [norm EXCEPT !.pc = "rejected", !.read = "error"]
  /\ NormUnchanged

NormNext ==
  \/ callFileToGenerativePart
  \/ \E loaded \in BOOLEAN : compressImageReader(loaded)
  \/ \E decoded, hasContext \in BOOLEAN : compressImageDecoder(decoded, hasContext)
  \/ \E loaded \in BOOLEAN : standardReader(loaded)

SpecNorm == NormInit /\ [][NormNext]_vars

(* --------------------- properties of the aggregation ------------------- *)
\* the occurrences of questions in a list of extractions: <<d, i>> is the
\* i-th question of the d-th extraction
Occurrences(input) ==
  UNION { { <<d, i>> : i \in 1..Len(input[d].questions) } : d \in 1..Len(input) }
QuestionAt(input, o) == input[o[1]].questions[o[2]]
YearAt(input, o) == IF input[o[1]].year = "" THEN Unknown ELSE input[o[1]].year

RECURSIVE Words(_)
\* the maximal runs of characters that are not white space, in order
Words(s) ==
  IF s = <<>> THEN <<>>
  ELSE LET front == SubSeq(s, 1, Len(s) - 1)
           c == s[Len(s)]
           w == Words(front)
       IN IF c \in {" ", "\t"} THEN w
          ELSE IF front # <<>> /\ front[Len(front)] \notin {" ", "\t"}
               THEN [w EXCEPT ![Len(w)] = Append(@, c)]
               ELSE Append(w, <<c>>)

SameLetter(c, d) == c = d \/ {c, d} \in {{"a", "A"}, {"b", "B"}, {"c", "C"}}

\* the two strings differ at most in letter case and in white space: at the
\* ends, or in what a run of white space between two words is made of
SameUpToCaseAndSpace(q1, q2) ==
  LET w1 == Words(q1)
      w2 == Words(q2)
  IN /\ Len(w1) = Len(w2)
     /\ \A k \in 1..Len(w1) :
          /\ Len(w1[k]) = Len(w2[k])
          /\ \A j \in 1..Len(w1[k]) : SameLetter(w1[k][j], w2[k][j])

\* the number of characters of q between its first and last character that
\* is not white space
TrimmedLength(q) ==
  LET inked == {k \in 1..Len(q) : q[k] \notin {" ", "\t"}}
  IN IF inked = {} THEN 0
     ELSE 1 + (CHOOSE k \in inked : \A j \in inked : k >= j)
            - (CHOOSE k \in inked : \A j \in inked : k <= j)

\* the entries of the map that hold both the year of o1 and the year of o2
EntriesOf(o1, o2) ==
  { k \in 1..Len(agg.questionMap) :
      /\ \E y \in 1..Len(agg.questionMap[k].years) :
           agg.questionMap[k].years[y] = YearAt(agg.input, o1)
      /\ \E y \in 1..Len(agg.questionMap[k].years) :
           agg.questionMap[k].years[y] = YearAt(agg.input, o2) }

\* the entries of the map made from the text of o1 or of o2
EntriesFrom(o1, o2) ==
  { k \in 1..Len(agg.questionMap) :
      \/ SameUpToCaseAndSpace(agg.questionMap[k].text, QuestionAt(agg.input, o1))
      \/ SameUpToCaseAndSpace(agg.questionMap[k].text, QuestionAt(agg.input, o2)) }

\* C13 as stated: any two question strings that differ only in letter case
\* or in white space have the same key and give one entry of the question
\* map, whose years hold the year of each of the two occurrences.
C13_VariantsShareOneEntry ==
  agg.pc = "done" =>
    \A o1, o2 \in Occurrences(agg.input) :
      (/\ o1 # o2
       /\ IsString(QuestionAt(agg.input, o1)) /\ IsString(QuestionAt(agg.input, o2))
       /\ SameUpToCaseAndSpace(QuestionAt(agg.input, o1), QuestionAt(agg.input, o2))) =>
        /\ KeyOf(Trim(QuestionAt(agg.input, o1))) = KeyOf(Trim(QuestionAt(agg.input, o2)))
        /\ Cardinality(EntriesFrom(o1, o2)) = 1
        /\ EntriesFrom(o1, o2) \subseteq EntriesOf(o1, o2)

\* C13 amended: any two question strings of at least three characters after
\* trimming that differ only in letter case or in white space have the same
\* key and give one entry of the question map, whose years hold the year of
\* each of the two occurrences; shorter strings give no entry.
C13_LongVariantsShareOneEntry ==
  agg.pc = "done" =>
    \A o1, o2 \in Occurrences(agg.input) :
      (/\ o1 # o2
       /\ IsString(QuestionAt(agg.input, o1)) /\ IsString(QuestionAt(agg.input, o2))
       /\ SameUpToCaseAndSpace(QuestionAt(agg.input, o1), QuestionAt(agg.input, o2))) =>
        /\ KeyOf(Trim(QuestionAt(agg.input, o1))) = KeyOf(Trim(QuestionAt(agg.input, o2)))
        /\ IF TrimmedLength(QuestionAt(agg.input, o1)) >= 3
           THEN /\ Cardinality(EntriesFrom(o1, o2)) = 1
                /\ EntriesFrom(o1, o2) \subseteq EntriesOf(o1, o2)
           ELSE EntriesFrom(o1, o2) = {}

\* "a  A" of 2021 and " A a" without a year are one entry with both years
C13_Witness ==
  /\ agg.pc = "done"
  /\ Len(agg.input) = 2
  /\ agg.input[1].questions = << <<"a", " ", " ", "A">> >>
  /\ agg.input[2].questions = << <<" ", "A", " ", "a">> >>
  /\ Len(agg.questionMap) = 1
  /\ agg.questionMap[1].years = <<"2021", Unknown>>

\* how many times y is in the list
CountOf(list, y) == Cardinality({k \in 1..Len(list) : list[k] = y})
KeysOf(questionMap) == {questionMap[k].key : k \in 1..Len(questionMap)}

\* the two maps have the same keys, each key once, and under every key the
\* same years as often
SameKeysAndYears(m1, m2) ==
  /\ KeysOf(m1) = KeysOf(m2)
  /\ Cardinality(KeysOf(m1)) = Len(m1)
  /\ Cardinality(KeysOf(m2)) = Len(m2)
  /\ \A k1 \in 1..Len(m1), k2 \in 1..Len(m2) :
       m1[k1].key = m2[k2].key =>
         \A y \in {"2021", "2022", Unknown} :
           CountOf(m1[k1].years, y) = CountOf(m2[k2].years, y)

RECURSIVE Reflatten(_)
\* one extraction with a single question for every (text, year) of the map
Reflatten(questionMap) ==
  IF questionMap = <<>> THEN <<>>
  ELSE LET e == questionMap[Len(questionMap)]
       IN Reflatten(SubSeq(questionMap, 1, Len(questionMap) - 1))
          \o [k \in 1..Len(e.years) |-> Extraction(<<e.text>>, e.years[k])]

\* the extractions in the order p
Permuted(input, p) == [k \in 1..Len(input) |-> input[p[k]]]

\* C16: aggregating the re-flattened entries of a question map gives the
\* same keys with the same years, and aggregating the extractions in any
\* other order gives the same keys with the same years under each key.
C16_AggregationIdempotentAnyOrder ==
  agg.pc = "done" =>
    /\ SameKeysAndYears(agg.questionMap, QuestionMapOf(Reflatten(agg.questionMap)))
    /\ \A p \in Permutations(1..Len(agg.input)) :
         SameKeysAndYears(agg.questionMap, QuestionMapOf(Permuted(agg.input, p)))

\* two extractions, of "a b" and of "a b" with "A<tab> B", whose map changes
\* with the order of the extractions: the text and the order of the years
\* are those of the first one seen
C16_Witness ==
  /\ agg.pc = "done"
  /\ Len(agg.input) = 2
  /\ Len(agg.questionMap) = 1
  /\ agg.questionMap[1].years = <<"2021", "2021", "2022">>
  /\ \E p \in Permutations(1..2) :
       /\ QuestionMapOf(Permuted(agg.input, p))[1].text # agg.questionMap[1].text
       /\ QuestionMapOf(Permuted(agg.input, p))[1].years # agg.questionMap[1].years
  /\ Reflatten(agg.questionMap) # agg.input

\* the occurrences that the aggregation does not skip
Kept(input) ==
  { o \in Occurrences(input) :
      IsString(QuestionAt(input, o)) /\ TrimmedLength(QuestionAt(input, o)) >= 3 }

\* C20: the years of every entry have one element for each occurrence of
\* its key in the extractions, "Unknown" for an occurrence without a year,
\* and the year entries are as many as the questions that were not skipped.
C20_OneYearPerOccurrence ==
  agg.pc = "done" =>
    /\ \A k \in 1..Len(agg.questionMap) :
         \A y \in {"", "2021", "2022", Unknown} :
           CountOf(agg.questionMap[k].years, y)
             = Cardinality({ o \in Kept(agg.input) :
                   /\ YearAt(agg.input, o) = y
                   /\ SameUpToCaseAndSpace(QuestionAt(agg.input, o),
                                           agg.questionMap[k].text) })
    /\ \A o \in Kept(agg.input) :
         \E k \in 1..Len(agg.questionMap) :
           SameUpToCaseAndSpace(QuestionAt(agg.input, o), agg.questionMap[k].text)
    /\ TotalYearEntries(agg.questionMap) = Cardinality(Kept(agg.input))

\* two documents without a year, one with the short "ab" that is skipped:
\* " abc " is counted twice under "Unknown"
C20_Witness ==
  /\ agg.pc = "done"
  /\ Len(agg.input) = 2
  /\ agg.input[1] = Extraction(<<T4, T3>>, "")
  /\ agg.input[2] = Extraction(<<T3>>, "")
  /\ Len(agg.questionMap) = 1
  /\ agg.questionMap[1].years = <<Unknown, Unknown>>

(* ------------------ properties of fileToGenerativePart ---------------- *)
\* compressImage did not produce a re-encoded image
CompressionFailed == norm.compression \in {"readerError", "imageError", "noContext"}

\* C17 as stated: when the compression of an image fails, by a reader
\* error, an image load error or a missing canvas context, the call is
\* never rejected and the payload it resolves with holds the original bytes.
C17_CompressionFailureNeverRejects ==
  CompressionFailed =>
    /\ norm.pc # "rejected"
    /\ norm.pc = "resolved" => norm.payload.data = "original"

\* C17 amended: when the compression of an image fails, the original bytes
\* are passed on, at once when the canvas context is missing and by the
\* standard reader after a reader error or an image load error; the payload
\* holds the original bytes, and the call is rejected only when that read
\* of the standard reader fails.
C17_CompressionFailureFallsBack ==
  CompressionFailed =>
    /\ norm.pc \in {"reading", "resolved", "rejected"}
    /\ norm.pc = "resolved" => norm.payload.data = "original"
    /\ norm.pc = "rejected" => norm.read = "error"
    /\ norm.compression = "noContext" => norm.pc = "resolved"

\* the image of a PNG file could not be decoded and the standard reader
\* delivered the file
C17_Witness ==
  /\ norm.pc = "resolved"
  /\ norm.compression = "imageError"
  /\ norm.read = "loaded"
  /\ norm.payload = [data |-> "original", mimeType |-> MimeType("image", "png")]

\* C18: a payload that holds the original bytes declares the media type of
\* the file, and a payload declares image/jpeg for a file of another type
\* only when its bytes are the JPEG encoding of the image.
C18_MediaTypeMatchesBytes ==
  norm.pc = "resolved" =>
    /\ norm.payload.data = "original" => norm.payload.mimeType = norm.file.type
    /\ (norm.payload.mimeType = Jpeg /\ norm.file.type # Jpeg) =>
         norm.payload.data = "jpeg"

Max(a, b) == IF a > b THEN a ELSE b

\* C19: the canvas has the size of the image when neither edge is longer
\* than 1536; otherwise its longer edge is exactly 1536, its shorter edge
\* is at most 1536 and is the shorter edge of the image scaled by the same
\* factor as the longer one, to the pixel.
C19_ScaledToLongestEdge ==
  norm.compression \in {"encoded", "noContext"} =>
    LET w == norm.file.width
        h == norm.file.height
        cw == norm.canvas.width
        ch == norm.canvas.height
    IN IF w <= MAX_IMAGE_DIMENSION /\ h <= MAX_IMAGE_DIMENSION
       THEN cw = w /\ ch = h
       ELSE /\ Max(cw, ch) = MAX_IMAGE_DIMENSION
            /\ Min(cw, ch) <= MAX_IMAGE_DIMENSION
            /\ w > h => cw = MAX_IMAGE_DIMENSION
            /\ h >= w => ch = MAX_IMAGE_DIMENSION
            /\ Min(cw, ch) * Max(w, h) <= Min(w, h) * MAX_IMAGE_DIMENSION
            /\ Min(w, h) * MAX_IMAGE_DIMENSION <= (Min(cw, ch) + 1) * Max(w, h)

\* a portrait image of 1024 x 3072 is drawn on a canvas of 512 x 1536
C19_Witness ==
  /\ norm.compression = "encoded"
  /\ norm.file.width = 1024 /\ norm.file.height = 3072
  /\ norm.canvas = [width |-> 512, height |-> 1536]
  /\ norm.payload.data = "jpeg"

\* the extractions without the questions that are not strings or have
\* fewer than three characters between their first and last character that
\* is not white space
WithoutNoise(input) ==
  [d \in 1..Len(input) |->
     [input[d] EXCEPT !.questions =
        SelectSeq(@, LAMBDA q : IsString(q) /\ TrimmedLength(q) >= 3)]]

\* C21: a question that is not a string, is empty or has fewer than three
\* characters after trimming creates no entry and adds no year to any
\* entry, and every question of three or more characters after trimming is
\* represented by an entry that holds its year.
C21_NoiseIsSkipped ==
  agg.pc = "done" =>
    /\ \A k \in 1..Len(agg.questionMap) :
         /\ IsString(agg.questionMap[k].text)
         /\ TrimmedLength(agg.questionMap[k].text) >= 3
    /\ agg.questionMap = QuestionMapOf(WithoutNoise(agg.input))
    /\ \A o \in Occurrences(agg.input) :
         (/\ IsString(QuestionAt(agg.input, o))
          /\ TrimmedLength(QuestionAt(agg.input, o)) >= 3) =>
           \E k \in 1..Len(agg.questionMap) :
             /\ SameUpToCaseAndSpace(agg.questionMap[k].text, QuestionAt(agg.input, o))
             /\ CountOf(agg.questionMap[k].years, YearAt(agg.input, o)) >= 1

\* the short "ab" and the number 4200 leave no trace: the map has the
\* entries of " abc " and "a b" only
C21_Witness ==
  /\ agg.pc = "done"
  /\ Len(agg.input) = 2
  /\ agg.input[1] = Extraction(<<T4, T3>>, "2021")
  /\ agg.input[2] = Extraction(<<N1, T1>>, "2022")
  /\ Len(agg.questionMap) = 2
  /\ agg.questionMap[1].years = <<"2021">>
  /\ agg.questionMap[2].years = <<"2022">>

(* ------------------------ properties of the reset --------------------- *)
\* the values the run state of the application has after construction, no
\* run being in flight (the request counters only record the last run)
InitialRunState ==
  /\ files = <<>>
  /\ analysisResults = Null
  /\ summary = Null
  /\ error = Null
  /\ isProcessing = FALSE
  /\ progress = 0
  /\ currentStatus = StatusIdle
  /\ phase = "idle"
  /\ <<runFiles, processedCount, taskPc, results, totalQ, allExtractions>>
       = << <<>>, 0, <<>>, <<>>, 0, Null >>

\* C22: handleReset, from any state in which the New Analysis button is
\* there, leaves the run state as it is after construction (no files, no
\* results, summary or error, not processing, progress 0, empty status) and
\* the dark mode as it was; nothing of the earlier run is left to influence
\* the next one.
C22_ResetRestoresInitialRunState ==
  [][ (analysisResults # Null /\ analysisResults' = Null) =>
        /\ InitialRunState'
        /\ darkMode' = darkMode
        /\ apiKey' = apiKey
    ]_vars

\* the reset has just cleared a run in dark mode
C22_Witness ==
  /\ op = "handleReset"
  /\ darkMode
  /\ InitialRunState

(* ------------------- properties of the status updates ----------------- *)
\* no two documents of the list have the same id
DistinctIds(fs) == \A j, k \in 1..Len(fs) : j # k => fs[j].id # fs[k].id

\* C23: when the ids of the listed documents are distinct, a status update
\* for one document changes the entry of that document only: the updates to
\* 'processing' at the start of a run change nothing but the status of each
\* entry, and the update of a settling task, to 'completed' with year and
\* question count or to 'error', leaves the entry of every other document
\* as it was, in whatever order the tasks settle.
C23_StatusUpdateTouchesOneEntry ==
  [][ DistinctIds(files) =>
        /\ (phase = "idle" /\ phase' = "extracting") =>
             /\ Len(files') = Len(files)
             /\ \A k \in 1..Len(files) :
                  files'[k] = [files[k] EXCEPT !.status = "processing"]
        /\ \A i \in 1..Len(taskPc) :
             Settles(i) =>
               /\ Len(files') = Len(files)
               /\ \A k \in 1..Len(files) :
                    IF files[k].id = runFiles[i].id
                    THEN /\ files'[k].status \in {"completed", "error"}
                         /\ files'[k].status = "completed"
                              => /\ files'[k].detectedYear # Null
                                 /\ files'[k].extractedQuestionsCount # Null
                         /\ files'[k].id = files[k].id
                         /\ files'[k].file = files[k].file
                    ELSE files'[k] = files[k]
    ]_vars

\* two documents with distinct ids in a run: the second is completed with
\* its year and count, the first is still processing
C23_Witness ==
  /\ phase = "extracting"
  /\ Len(files) = 2
  /\ DistinctIds(files)
  /\ files[1].status = "processing"
  /\ files[2].status = "completed"
  /\ files[2].detectedYear = Some("2021")
  /\ files[2].extractedQuestionsCount = Some(2)

(* ---------------------- properties of a run in flight ------------------ *)
\* the documents of a list, without what a run writes on them
Documents(fs) == [k \in 1..Len(fs) |-> [id |-> fs[k].id, file |-> fs[k].file]]

\* C24: while isProcessing is true the landing panel with the uploader and
\* the Analyze button and the New Analysis button are not rendered, no step
\* is a call of processFiles or handleReset, no step adds or removes a
\* document, and the listed documents are those the run started with, up
\* to and including the step that ends the run.
C24_OneRunOnFrozenDocuments ==
  [][ isProcessing =>
        /\ ~PanelVisible
        /\ analysisResults = Null
        /\ op' \notin {"processFiles", "handleReset"}
        /\ phase # "idle"
        /\ Documents(files) = Documents(runFiles)
        /\ Documents(files') = Documents(runFiles)
    ]_vars

\* a run of two documents has reached the analysis request
C24_Witness ==
  /\ isProcessing
  /\ phase = "analyzing"
  /\ Len(runFiles) = 2
  /\ Documents(files) = Documents(runFiles)

(* ------------------- properties of the displayed state ---------------- *)
\* C25: in every reachable state, results on display come with a summary
\* whose totalRepeatedGroups is the number of groups of the results and
\* whose totalPapers is the number of documents now listed, and an error
\* and results are never there together.
C25_DisplayedResultsConsistent ==
  /\ analysisResults # Null =>
       /\ summary # Null
       /\ summary[1].totalRepeatedGroups = Len(analysisResults[1])
       /\ summary[1].totalPapers = Len(files)
  /\ ~(error # Null /\ analysisResults # Null)

\* two groups are on display for two listed documents
C25_Witness ==
  /\ analysisResults # Null
  /\ Len(analysisResults[1]) = 2
  /\ Len(files) = 2
  /\ summary # Null
  /\ error = Null
  /\ ~isProcessing

(* ------------------------ termination of a run ------------------------ *)
\* the run has ended with results or with an error, and every listed
\* document is completed or in error
RunEnded ==
  /\ ~isProcessing
  /\ analysisResults # Null \/ error # Null
  /\ \A k \in 1..Len(files) : files[k].status \in {"completed", "error"}

\* C26: when every file read and backend call settles, a run that has
\* started ends: isProcessing becomes false, and in the step in which it
\* does there are results or an error and every document is completed or in
\* error, none pending or processing.
C26_EveryRunEnds ==
  /\ isProcessing ~> RunEnded
  /\ [][(isProcessing /\ ~isProcessing') => RunEnded']_vars

\* a run of two documents, one in error and one completed, has ended with
\* an analysis answer that could not be parsed
C26_Witness ==
  /\ RunEnded
  /\ Len(files) = 2
  /\ files[1].status = "error"
  /\ files[2].status = "completed"
  /\ error = Some(MsgParseAnalysis)

====
